---- MODULE Spec2Model ----
(***************************************************************************)
(* The adaptive chunk-submission engine of Docstrange-Nanonets-Bridge:     *)
(*   split_pdf_to_chunks   (utils.py)  the page-range generator            *)
(*   extract_mode_adaptive (main.py)   one pass of the adaptive controller *)
(*   post_extract          (utils.py)  the submission client               *)
(*   poll_until_ready      (utils.py)  the completion poller               *)
(* Three specifications share the variables:                               *)
(*   SpecSplit   one run of the generator split_pdf_to_chunks              *)
(*   Spec        one pass of extract_mode_adaptive; a call of post_extract *)
(*               is one step whose outcome is any member of                *)
(*               PostExtractOutcomes                                       *)
(*   SpecSubmit  one call of post_extract, request by request, with the    *)
(*               poller; OutcomeInPostExtractOutcomes ties its outcomes    *)
(*               to the set the pass draws from                            *)
(***************************************************************************)
EXTENDS Integers, Sequences, FiniteSets, TLC

VARIABLES
    pc,             \* position of the running function
    \* ---- extract_mode_adaptive (main.py)
    mode,           \* parameter mode
    merge_markdown, \* parameter merge_markdown
    total_pages,    \* len(reader.pages)
    chunk_size,     \* local chunk_size
    start_page,     \* local start_page (the page cursor)
    end_page,       \* local end_page of the current iteration (0: not yet set)
    merged_md,      \* local merged_md, a list of strings
    msg,            \* local msg = str(e) of the current iteration's failure
    code,           \* local code parsed from msg (0 stands for None)
    artifacts,      \* files written under out_dir, in write order
    submissions,    \* calls of post_extract, in order: the range, the
                    \* chunk size, the number of files written before,
                    \* and how a raised call was classified
    \* ---- split_pdf_to_chunks (utils.py)
    page,           \* local page
    yielded,        \* the (start, end) pairs yielded so far
    \* ---- post_extract (utils.py)
    attempt,        \* loop variable attempt
    last_err,       \* local last_err: text of the last RequestException
    posts,          \* POST responses/failures of this call, in order
    sleeps,         \* arguments of time.sleep made by post_extract
    outcome,        \* how the call ended: returned body or raised message
    \* ---- poll_until_ready (utils.py)
    record_id,      \* parameter record_id
    now,            \* time.time() - (time of the call), in seconds
    poll_last_err,  \* local last_err of the poller
    gets,           \* GET requests of the current iteration, in order
    n_gets,         \* number of GET requests of this call
    missed,         \* a terminal HTTP-200 response was seen and not returned
    poll_sleeps,    \* arguments of time.sleep made by the poller
    poll_seen,      \* what the GETs of this call brought: the last
                    \* response that was not HTTP 200, and how the last
                    \* failed query-parameter request failed
    \* ---- two calls of extract_mode_adaptive running at once
    passes,         \* the locals of each call
    files           \* the files under output/, each with who wrote it

vars == <<pc, mode, merge_markdown, total_pages, chunk_size, start_page,
          end_page, merged_md, msg, code, artifacts, submissions, page,
          yielded, attempt, last_err, posts, sleeps, outcome, record_id,
          now, poll_last_err, gets, n_gets, missed, poll_sleeps,
          poll_seen, passes, files>>

passVars == <<mode, merge_markdown, chunk_size, start_page, end_page,
              merged_md, msg, code, artifacts, submissions>>
splitVars == <<page, yielded>>
twoVars == <<passes, files>>
postVars == <<attempt, last_err, posts, sleeps>>
pollVars == <<record_id, now, poll_last_err, gets, n_gets, missed,
              poll_sleeps, poll_seen>>

(***************************************************************************)
(* config.py                                                               *)
(***************************************************************************)
DEFAULT_CHUNK_SIZE == 10
MIN_CHUNK_SIZE == 5
REQUEST_TIMEOUT == 300
MAX_RETRIES == 3
RETRY_SLEEP_BASE == 2
POLL_SLEEP_SEC == 2
POLL_MAX_SECONDS == 240

(***************************************************************************)
(* Bounds of the model                                                     *)
(***************************************************************************)
\* the documents have 0..MaxPages pages
MaxPages == 12
\* split_pdf_to_chunks is run with chunk_size in 1..MaxChunk
MaxChunk == 6
\* a request answers after ReqFast or ReqSlow seconds
ReqFast == 39
ReqSlow == 118
\* two passes at once run over a document of 0..MaxPagesTwo pages
MaxPagesTwo == 7

Last(seq) == seq[Len(seq)]
Min(a, b) == IF a <= b THEN a ELSE b
Max(a, b) == IF a >= b THEN a ELSE b

\* Python's None, for the optional string fields of a response body
None == "<None>"

(***************************************************************************)
(* Text.  A message is a sequence of pieces; "x in msg" is decided piece   *)
(* by piece from the table Fragments of the needles (status codes and      *)
(* phrases) that occur in a piece, case-sensitively; lower() is the table  *)
(* Lower.                                                                  *)
(***************************************************************************)
URL == "https://extraction-api.nanonets.com/extract"

Lower(piece) ==
    CASE piece = "Payload Too Large" -> "payload too large"
      [] piece = "Gateway Timeout" -> "gateway timeout"
      [] piece = "Bad Request" -> "bad request"
      [] piece = "Client Error:" -> "client error:"
      [] piece = "Server Error:" -> "server error:"
      [] piece = "Extraction failed after" -> "extraction failed after"
      [] piece = "Connection aborted." -> "connection aborted."
      [] piece = "Read timed out. (read timeout=300)"
            -> "read timed out. (read timeout=300)"
      [] piece = "Response was not valid JSON. Snippet:"
            -> "response was not valid json. snippet:"
      [] piece = "Server returned no record_id; cannot poll. Body:"
            -> "server returned no record_id; cannot poll. body:"
      [] piece = "Polling timed out for record_id="
            -> "polling timed out for record_id="
      [] piece = "(HTTP" -> "(http"
      [] piece = "<html>502 Bad Gateway</html>"
            -> "<html>502 bad gateway</html>"
      [] piece = "Upstream Request Timeout" -> "upstream request timeout"
      [] piece = "Completed" -> "completed"
      [] piece = "<None>" -> "<none>"
      [] OTHER -> piece

Fragments(piece) ==
    CASE piece \in {"408", "413", "429", "500", "502", "503", "504"}
            -> {piece}
      [] piece = "payload too large" -> {"payload too large"}
      [] piece = "gateway timeout" -> {"timeout"}
      [] piece = "Read timed out. (read timeout=300)" -> {"timed out", "timeout"}
      [] piece = "read timed out. (read timeout=300)" -> {"timed out", "timeout"}
      [] piece = "Polling timed out for record_id=" -> {"timed out"}
      [] piece = "polling timed out for record_id=" -> {"timed out"}
      [] piece = "<html>502 Bad Gateway</html>" -> {"502"}
      [] piece = "<html>502 bad gateway</html>" -> {"502"}
      [] piece = "upstream request timeout" -> {"timeout"}
      [] piece = "job-5041" -> {"504"}
      [] OTHER -> {}

\* needle in text
In(needle, text) == \E i \in DOMAIN text : needle \in Fragments(text[i])

\* text.lower()
LowerText(text) == [i \in DOMAIN text |-> Lower(text[i])]

(***************************************************************************)
(* Response bodies of the remote endpoint (spec section 6): JSON objects   *)
(* with the optional fields processing_status, content, tables,            *)
(* pages_processed and record_id.  An absent string field is None; an      *)
(* absent pages_processed reads as its default 0.                          *)
(***************************************************************************)
StatusValues == {"", "processing", "Completed"}
ContentValues == {None, "X", "X\n"}
TablesValues == {None, "[t]"}
PagesValues == {0, 1}
RecordIds == {"abc", "job-5041"}

Bodies ==
    [processing_status : StatusValues, content : ContentValues,
     tables : TablesValues, pages_processed : PagesValues,
     record_id : RecordIds \cup {None}]

\* bodies that are not JSON: resp.json() raises ValueError on them
RawTexts == {"<html>502 Bad Gateway</html>", "Upstream Request Timeout",
             "<html></html>"}

\* What a response carries: a JSON object, or text resp.json() raises
\* ValueError on
Json(data) == [json |-> TRUE, data |-> data]
Raw(text) == [json |-> FALSE, text |-> text]
NoPayload == Raw("")
Payloads == {Json(b) : b \in Bodies} \cup {Raw(t) : t \in RawTexts}

\* Python truthiness of an optional string-like value
Truthy(v) == v \notin {None, "", "[]"}

\* dict.get(key, default)
Get(data, key, default) == IF data[key] = None THEN default ELSE data[key]

TerminalStatuses == {"completed", "done", "finished", "succeeded"}

\* faulty variant of post_terminal: the processed-page count is not looked at
post_terminal_no_pages(data_out) ==
    \/ Lower(Get(data_out, "processing_status", "")) \in TerminalStatuses
    \/ Truthy(data_out.content)
    \/ Truthy(data_out.tables)

\* utils.py 171-183: the "already done" test of post_extract
post_terminal(data_out) ==
    \/ Lower(Get(data_out, "processing_status", "")) \in TerminalStatuses
    \/ Truthy(data_out.content)
    \/ Truthy(data_out.tables)
    \/ data_out.pages_processed > 0

\* faulty variant of poll_terminal: any HTTP-200 JSON body counts as finished
poll_terminal_any(data) == TRUE

\* utils.py 101-109 and 123-130: the completion test of poll_until_ready
poll_terminal(data) ==
    \/ Lower(Get(data, "processing_status", "")) \in TerminalStatuses
    \/ data.pages_processed > 0
    \/ Truthy(data.content)
    \/ Truthy(data.tables)

(***************************************************************************)
(* Exception texts                                                         *)
(***************************************************************************)
PostStatuses == {200, 400, 413, 504}
GetStatuses == {200, 404, 500}

Reason(status) ==
    CASE status = 400 -> "Bad Request"
      [] status = 404 -> "Not Found"
      [] status = 413 -> "Payload Too Large"
      [] status = 500 -> "Internal Server Error"
      [] status = 504 -> "Gateway Timeout"
      [] OTHER -> "OK"

\* str(HTTPError) as raise_for_status() builds it
HTTPErrorText(status) ==
    <<ToString(status),
      IF status < 500 THEN "Client Error:" ELSE "Server Error:",
      Reason(status), "for url:", URL>>

\* str(e) of a connection-level requests.RequestException
TransportTexts == {<<"Connection aborted.">>,
                   <<"Read timed out. (read timeout=300)">>}

\* utils.py 199
ExhaustedText(err) ==
    <<"Extraction failed after", ToString(MAX_RETRIES), "attempts:">> \o err

\* utils.py 167-169
NotJsonText(raw) == <<"Response was not valid JSON. Snippet:", raw>>

\* json.dumps(data_out)
Dumps(data) ==
    <<data.processing_status, data.content, data.tables,
      ToString(data.pages_processed), data.record_id>>

\* utils.py 188-190
NoRecordIdText(data_out) ==
    <<"Server returned no record_id; cannot poll. Body:">> \o Dumps(data_out)

\* the poller's last_err: None, an exception, or a non-200 response
NoPollErr == [kind |-> "none"]
PollExc == [kind |-> "exception"]
PollResp(status) == [kind |-> "response", status |-> status]

\* utils.py 138-143
PollTimeoutText(rid, err) ==
    IF err.kind = "response"
    THEN <<"Polling timed out for record_id=", rid,
           "(HTTP", ToString(err.status), ")">>
    ELSE <<"Polling timed out for record_id=", rid>>

(***************************************************************************)
(* Outcomes of one call of post_extract                                    *)
(***************************************************************************)
Returned(body) == [kind |-> "return", body |-> body]
Raised(text) == [kind |-> "raise", text |-> text]
NoOutcome == [kind |-> "none"]

RequestErrTexts ==
    {HTTPErrorText(s) : s \in {t \in PostStatuses : t >= 400}}
        \cup TransportTexts

\* utils.py 146-199: every way post_extract can end
PostExtractOutcomes ==
    {Returned(b) : b \in {d \in Bodies : post_terminal(d)}}
    \cup {Raised(ExhaustedText(e)) : e \in RequestErrTexts}
    \cup {Raised(NotJsonText(r)) : r \in RawTexts}
    \cup {Raised(NoRecordIdText(d)) :
            d \in {b \in Bodies : ~post_terminal(b) /\ b.record_id = None}}
    \cup {Raised(PollTimeoutText(r, e)) :
            r \in RecordIds,
            e \in {NoPollErr} \cup {PollResp(s) : s \in GetStatuses \ {200}}}

(***************************************************************************)
(* split_pdf_to_chunks (utils.py 25-46), a generator                       *)
(***************************************************************************)
SplitChunkSizes == (1..MaxChunk) \cup {MIN_CHUNK_SIZE, DEFAULT_CHUNK_SIZE}

\* faulty variant of split_end: the end is not clamped to the last page
split_end_unclamped(p, size, n) == p + size - 1

\* utils.py 31
split_end(p, size, n) == Min(p + size - 1, n)

\* what the log poll_seen keeps: non200, the status of the last response
\* of either request style whose status was not 200 (0: there was none),
\* and query, how the last failed query-parameter request failed ("":
\* none failed; "exception": it raised; "response": it got the status
\* query_status)
NothingSeen == [non200 |-> 0, query |-> "", query_status |-> 0]

SeeGet(seen, style, status, payload) ==
    [non200 |-> IF status \notin {0, 200} THEN status ELSE seen.non200,
     query |-> IF style # "query" THEN seen.query
               ELSE IF status = 0 \/ (status = 200 /\ ~payload.json)
               THEN "exception"
               ELSE IF status # 200 THEN "response"
               ELSE seen.query,
     query_status |-> IF style = "query" /\ status \notin {0, 200}
                      THEN status
                      ELSE IF style = "query"
                              /\ (status = 0 \/ (status = 200 /\ ~payload.json))
                      THEN 0
                      ELSE seen.query_status]

\* the parts of the state a specification does not use
IdlePass ==
    /\ mode = "markdown" /\ merge_markdown = FALSE
    /\ start_page = 1 /\ end_page = 0
    /\ merged_md = <<>> /\ msg = <<>> /\ code = 0
    /\ artifacts = <<>> /\ submissions = <<>>
IdleSplit == page = 1 /\ yielded = <<>>
IdleTwo == passes = <<>> /\ files = {}
IdlePost ==
    /\ attempt = 0 /\ last_err = <<>> /\ posts = <<>> /\ sleeps = <<>>
    /\ outcome = NoOutcome
IdlePoll ==
    /\ record_id = None /\ now = 0 /\ poll_last_err = NoPollErr
    /\ gets = <<>> /\ n_gets = 0 /\ missed = FALSE /\ poll_sleeps = <<>>
    /\ poll_seen = NothingSeen

InitSplit ==
    /\ pc = "split"
    /\ total_pages \in 0..MaxPages
    /\ chunk_size \in SplitChunkSizes
    /\ IdlePass /\ IdleSplit /\ IdlePost /\ IdlePoll /\ IdleTwo

\* utils.py 30-46: one turn of the loop, up to the yield and page = end + 1
SplitYield ==
    /\ pc = "split"
    /\ page <= total_pages
    /\ LET end == split_end(page, chunk_size, total_pages) IN
        /\ yielded' = Append(yielded, <<page, end>>)
        /\ page' = end + 1
    /\ UNCHANGED <<pc, total_pages, mode, merge_markdown, chunk_size,
                   start_page, end_page, merged_md, msg, code, artifacts,
                   submissions, outcome>>
    /\ UNCHANGED <<postVars, pollVars, twoVars>>

\* utils.py 30: the loop ends, the generator is exhausted
SplitReturn ==
    /\ pc = "split"
    /\ page > total_pages
    /\ pc' = "split_done"
    /\ UNCHANGED <<total_pages, passVars, splitVars, twoVars, postVars, pollVars,
                   outcome>>

NextSplit == SplitYield \/ SplitReturn

SpecSplit == InitSplit /\ [][NextSplit]_vars

(***************************************************************************)
(* extract_mode_adaptive (main.py 22-112): one pass                        *)
(***************************************************************************)
\* main.py 116-127: the passes main() runs
PassArgs == {<<"markdown", TRUE>>, <<"ocr-with-bounding-boxes", FALSE>>,
             <<"tables", FALSE>>, <<"hierarchy_output", FALSE>>}

CapacityCodes == <<408, 413, 429, 500, 502, 503, 504>>

\* main.py 67-72: the first code of the tuple that occurs in msg; 0 is None
ParseCode(text) ==
    LET hits == {i \in DOMAIN CapacityCodes :
                    In(ToString(CapacityCodes[i]), text)}
    IN  IF hits = {} THEN 0
        ELSE CapacityCodes[CHOOSE i \in hits : \A j \in hits : i <= j]

\* faulty variant of should_shrink: the phrase "timed out" is not looked for
should_shrink_no_timed_out(status_code, text) ==
    \/ status_code \in {CapacityCodes[i] : i \in DOMAIN CapacityCodes}
    \/ LET t == LowerText(text) IN
         \/ In("payload too large", t)
         \/ In("timeout", t)

\* utils.py 49-55
should_shrink(status_code, text) ==
    \/ status_code \in {CapacityCodes[i] : i \in DOMAIN CapacityCodes}
    \/ LET t == LowerText(text) IN
         \/ In("payload too large", t)
         \/ In("timeout", t)
         \/ In("timed out", t)

\* main.py 73-74: the failure is taken as a capacity signal
CapacitySignal(c, text) == c # 0 \/ should_shrink(c, text)

\* main.py 73-75: the condition of the shrink branch
ShrinkCondition(c, text, size) ==
    CapacitySignal(c, text) /\ size > MIN_CHUNK_SIZE

\* faulty variants of new_size: quartering without the floor; no change
new_size_no_floor(size) == size \div 4

new_size_same(size) == size

\* faulty variant of new_size: one page less, not half
new_size_decrement(size) == Max(MIN_CHUNK_SIZE, size - 1)

\* main.py 76
new_size(size) == Max(MIN_CHUNK_SIZE, size \div 2)

\* faulty variant of range_end: the end is not clamped to the last page
range_end_unclamped(start, size, n) == start + size - 1

\* main.py 42
range_end(start, size, n) == Min(start + size - 1, n)

\* faulty variant of skip_to: the cursor stays on the failed range
skip_to_same(start, end) == start

\* main.py 88: where the cursor goes after an error marker
skip_to(start, end) == end + 1

\* main.py 57, 85, 92-95, 110: a file of out_dir, named by its range tag
\* (<<>> for the merged file) and its extension
ChunkPath(m, start, end) ==
    [tag |-> <<start, end>>, ext |-> IF m # "markdown" THEN "json" ELSE "md"]
ErrorPath(start, end) == [tag |-> <<start, end>>, ext |-> "error.txt"]
MergedPath == [tag |-> <<>>, ext |-> "md"]

\* str.rstrip()
Rstrip(text) == IF text = "X\n" THEN "X" ELSE text

PAGE_CHUNK_BREAK == "\n\n<!-- PAGE-CHUNK BREAK -->\n\n"

\* faulty variant of merged_entry: the content is appended as it came
merged_entry_unstripped(md) == <<md, PAGE_CHUNK_BREAK>>

\* main.py 100: what a successful markdown range adds to merged_md
merged_entry(md) == <<Rstrip(md), PAGE_CHUNK_BREAK>>

\* "".join(list), each element a sequence of pieces
RECURSIVE Join(_)
Join(list) == IF list = <<>> THEN <<>> ELSE Head(list) \o Join(Tail(list))

\* A write of save_text / save_json.  text is the markdown written to a .md
\* file; the payload of a .json or .error.txt file is not kept (None).
Write(path, text) == [path |-> path, text |-> text]

Init ==
    /\ pc = "while"
    /\ \E a \in PassArgs : mode = a[1] /\ merge_markdown = a[2]
    /\ total_pages \in 0..MaxPages
    /\ chunk_size = DEFAULT_CHUNK_SIZE
    /\ merged_md = <<>>
    /\ start_page = 1
    /\ end_page = 0
    /\ msg = <<>> /\ code = 0
    /\ artifacts = <<>> /\ submissions = <<>>
    /\ IdleSplit /\ IdlePost /\ IdlePoll /\ IdleTwo

\* main.py 41-63: the loop test holds; the range is computed, the chunk is
\* built and handed to post_extract.  msg and code of the previous
\* iteration are dead here and are cleared.
Dispatch ==
    /\ pc = "while"
    /\ start_page <= total_pages
    /\ end_page' = range_end(start_page, chunk_size, total_pages)
    /\ submissions' = Append(submissions,
            [start |-> start_page, end |-> end_page', size |-> chunk_size,
             n_artifacts |-> Len(artifacts),
             raised |-> FALSE, code |-> 0, capacity |-> FALSE])
    /\ msg' = <<>> /\ code' = 0
    /\ pc' = "post_extract"
    /\ UNCHANGED <<mode, merge_markdown, total_pages, chunk_size, start_page,
                   merged_md, artifacts, outcome>>
    /\ UNCHANGED <<splitVars, twoVars, postVars, pollVars>>

\* the last entry of submissions, marked as raised, with the code parsed
\* from the message and whether the message was taken as a capacity signal
MarkRaised(log, c, text) ==
    [log EXCEPT ![Len(log)] = [@ EXCEPT !.raised = TRUE, !.code = c,
                                        !.capacity = CapacitySignal(c, text)]]

\* main.py 63, 91-105: post_extract returned res
Success ==
    /\ pc = "post_extract"
    /\ \E o \in PostExtractOutcomes :
        /\ o.kind = "return"
        /\ LET res == o.body
               chunk_out == ChunkPath(mode, start_page, end_page)
               md == Get(res, "content", "")
           IN  IF mode = "markdown"
               THEN /\ artifacts' = Append(artifacts, Write(chunk_out, md))
                    /\ merged_md' =
                         IF merge_markdown
                         THEN Append(merged_md, merged_entry(md))
                         ELSE merged_md
               ELSE /\ artifacts' = Append(artifacts, Write(chunk_out, None))
                    /\ merged_md' = merged_md
    /\ start_page' = end_page + 1
    /\ pc' = "while"
    /\ UNCHANGED <<mode, merge_markdown, total_pages, chunk_size, end_page,
                   msg, code, submissions, outcome>>
    /\ UNCHANGED <<splitVars, twoVars, postVars, pollVars>>

\* main.py 64-81: post_extract raised e, the shrink branch is taken
ShrinkRetry ==
    /\ pc = "post_extract"
    /\ \E o \in PostExtractOutcomes :
        /\ o.kind = "raise"
        /\ ShrinkCondition(ParseCode(o.text), o.text, chunk_size)
        /\ msg' = o.text
        /\ code' = ParseCode(o.text)
    /\ chunk_size' = new_size(chunk_size)
    /\ submissions' = MarkRaised(submissions, code', msg')
    /\ pc' = "while"
    /\ UNCHANGED <<mode, merge_markdown, total_pages, start_page, end_page,
                   merged_md, artifacts, outcome>>
    /\ UNCHANGED <<splitVars, twoVars, postVars, pollVars>>

\* faulty variant of ErrorMarker: the branch lacks its continue, control
\* falls through to the save of a result that was never bound, and the
\* pass ends on that exception
ErrorMarkerFallsThrough ==
    /\ pc = "post_extract"
    /\ \E o \in PostExtractOutcomes :
        /\ o.kind = "raise"
        /\ ~ShrinkCondition(ParseCode(o.text), o.text, chunk_size)
        /\ msg' = o.text
        /\ code' = ParseCode(o.text)
    /\ artifacts' = Append(artifacts,
                           Write(ErrorPath(start_page, end_page), None))
    /\ start_page' = skip_to(start_page, end_page)
    /\ submissions' = MarkRaised(submissions, code', msg')
    /\ pc' = "aborted"
    /\ UNCHANGED <<mode, merge_markdown, total_pages, chunk_size, end_page,
                   merged_md, outcome>>
    /\ UNCHANGED <<splitVars, twoVars, postVars, pollVars>>

\* main.py 64-75, 82-89: post_extract raised e, the error marker is written
\* and the range is skipped
ErrorMarker ==
    /\ pc = "post_extract"
    /\ \E o \in PostExtractOutcomes :
        /\ o.kind = "raise"
        /\ ~ShrinkCondition(ParseCode(o.text), o.text, chunk_size)
        /\ msg' = o.text
        /\ code' = ParseCode(o.text)
    /\ artifacts' = Append(artifacts,
                           Write(ErrorPath(start_page, end_page), None))
    /\ start_page' = skip_to(start_page, end_page)
    /\ submissions' = MarkRaised(submissions, code', msg')
    /\ pc' = "while"
    /\ UNCHANGED <<mode, merge_markdown, total_pages, chunk_size, end_page,
                   merged_md, outcome>>
    /\ UNCHANGED <<splitVars, twoVars, postVars, pollVars>>

\* main.py 41: the loop test fails
ExitLoop ==
    /\ pc = "while"
    /\ start_page > total_pages
    /\ pc' = "merge"
    /\ UNCHANGED <<total_pages, passVars, splitVars, twoVars, postVars, pollVars,
                   outcome>>

\* main.py 107-112: the merged markdown, then the function returns
Merge ==
    /\ pc = "merge"
    /\ artifacts' =
         IF merge_markdown /\ merged_md # <<>>
         THEN Append(artifacts, Write(MergedPath, Join(merged_md)))
         ELSE artifacts
    /\ pc' = "done"
    /\ UNCHANGED <<mode, merge_markdown, total_pages, chunk_size, start_page,
                   end_page, merged_md, msg, code, submissions, outcome>>
    /\ UNCHANGED <<splitVars, twoVars, postVars, pollVars>>

Next == Dispatch \/ Success \/ ShrinkRetry \/ ErrorMarker \/ ExitLoop \/ Merge

Spec == Init /\ [][Next]_vars

\* The pass is one sequential call: it keeps running until it returns.
FairSpec == Spec /\ WF_vars(Next)

(***************************************************************************)
(* post_extract (utils.py 146-199) and poll_until_ready (utils.py 80-143): *)
(* one call of post_extract, one request per step                          *)
(***************************************************************************)
\* what the log posts keeps of a POST: a response, or a connection failure
PostResponse(status, payload) ==
    [kind |-> "response", status |-> status, payload |-> payload]
PostFailure == [kind |-> "transport", status |-> 0, payload |-> NoPayload]

\* what the log gets keeps of a GET: the style of the request, the HTTP
\* status (0: the request raised), whether the response was JSON
\* satisfying the terminal predicate, and whether the request ended at or
\* after the poller's deadline
GetEntry(style, status, terminal, late) ==
    [style |-> style, status |-> status, terminal |-> terminal,
     late |-> late]

\* The terminal predicate of the specification (sections 4.2 and 4.3) on a
\* response body: a completion synonym as status, non-empty content, a
\* non-empty table payload, or a positive processed-page count.
TerminalPredicate(payload) ==
    /\ payload.json
    /\ \/ Lower(payload.data.processing_status) \in
             {"completed", "done", "finished", "succeeded"}
       \/ payload.data.content \notin {None, ""}
       \/ payload.data.tables \notin {None, "[]"}
       \/ payload.data.pages_processed > 0

ReqDurations == {ReqFast, ReqSlow}

\* The payloads a GET of the given status is answered with.  Only a 200
\* response has its body read (utils.py 99-100, 121-122), and record_id
\* is not among the fields read from it (101-108): the bodies come
\* without one.  The other responses come with an error page or with a
\* finished job's body.  Status 0 stands for a request that raised:
\* there is no response.
DoneBody ==
    [processing_status |-> "Completed", content |-> "X", tables |-> None,
     pages_processed |-> 1, record_id |-> None]
GetPayloads(status) ==
    IF status = 200
    THEN {Json(b) : b \in {d \in Bodies : d.record_id = None}}
            \cup {Raw(t) : t \in RawTexts}
    ELSE IF status = 0 THEN {NoPayload}
    ELSE {Raw("<html></html>"), Json(DoneBody)}

InitSubmit ==
    /\ pc = "post"
    /\ total_pages = 1
    /\ chunk_size = DEFAULT_CHUNK_SIZE
    /\ IdlePass /\ IdleSplit /\ IdlePost /\ IdlePoll /\ IdleTwo

\* faulty variant of backoff: the wait does not grow with the attempt
backoff_constant(k) == RETRY_SLEEP_BASE

\* utils.py 197: the argument of time.sleep after failed attempt k (0-based)
backoff(k) == RETRY_SLEEP_BASE * (k + 1)

\* utils.py 194-197: a RequestException with text err ends attempt number
\* attempt; it is kept, slept on, and the for loop moves on
Retry(err) ==
    /\ last_err' = err
    /\ sleeps' = Append(sleeps, backoff(attempt))
    /\ attempt' = attempt + 1
    /\ pc' = "post"
    /\ UNCHANGED <<outcome, pollVars>>

\* utils.py 149-157, 194-197: requests.post raises (connection error, timeout)
PostTransportError ==
    /\ pc = "post" /\ attempt < MAX_RETRIES
    /\ \E t \in TransportTexts :
        /\ posts' = Append(posts, PostFailure)
        /\ Retry(t)
    /\ UNCHANGED <<total_pages, passVars, splitVars, twoVars>>

\* the bodies a response of status >= 400 comes with
HttpErrorBodies == {"<html></html>", "Upstream Request Timeout"}

\* utils.py 159-161, 194-197: status >= 400; the body is printed
\* (_print_server_error) and raise_for_status() raises HTTPError, which is
\* a requests.RequestException
PostHttpError ==
    /\ pc = "post" /\ attempt < MAX_RETRIES
    /\ \E s \in PostStatuses, r \in HttpErrorBodies :
        /\ s >= 400
        /\ posts' = Append(posts, PostResponse(s, Raw(r)))
        /\ Retry(HTTPErrorText(s))
    /\ UNCHANGED <<total_pages, passVars, splitVars, twoVars>>

\* utils.py 164-169: the body is not JSON; RuntimeError leaves the function
PostNotJson ==
    /\ pc = "post" /\ attempt < MAX_RETRIES
    /\ \E s \in PostStatuses, r \in RawTexts :
        /\ s < 400
        /\ posts' = Append(posts, PostResponse(s, Raw(r)))
        /\ outcome' = Raised(NotJsonText(r))
    /\ pc' = "raised"
    /\ UNCHANGED <<total_pages, passVars, splitVars, twoVars, attempt, last_err,
                   sleeps, pollVars>>

\* utils.py 171-184: the response is already final
PostFinal ==
    /\ pc = "post" /\ attempt < MAX_RETRIES
    /\ \E s \in PostStatuses, data_out \in Bodies :
        /\ s < 400
        /\ post_terminal(data_out)
        /\ posts' = Append(posts, PostResponse(s, Json(data_out)))
        /\ outcome' = Returned(data_out)
    /\ pc' = "returned"
    /\ UNCHANGED <<total_pages, passVars, splitVars, twoVars, attempt, last_err,
                   sleeps, pollVars>>

\* utils.py 186-190: not final and no record_id
PostNoRecordId ==
    /\ pc = "post" /\ attempt < MAX_RETRIES
    /\ \E s \in PostStatuses, data_out \in Bodies :
        /\ s < 400
        /\ ~post_terminal(data_out)
        /\ ~Truthy(data_out.record_id)
        /\ posts' = Append(posts, PostResponse(s, Json(data_out)))
        /\ outcome' = Raised(NoRecordIdText(data_out))
    /\ pc' = "raised"
    /\ UNCHANGED <<total_pages, passVars, splitVars, twoVars, attempt, last_err,
                   sleeps, pollVars>>

\* faulty variant of poll_arg: the id of the receipt is not the one polled
poll_arg_fixed(rid) == "abc"

\* utils.py 192: the argument handed to poll_until_ready, str(rid)
poll_arg(rid) == rid

\* utils.py 186-192, 89-90: not final, a record_id: poll_until_ready is
\* called; deadline = time.time() + POLL_MAX_SECONDS, last_err = None
PostReceipt ==
    /\ pc = "post" /\ attempt < MAX_RETRIES
    /\ \E s \in PostStatuses, data_out \in Bodies :
        /\ s < 400
        /\ ~post_terminal(data_out)
        /\ Truthy(data_out.record_id)
        /\ posts' = Append(posts, PostResponse(s, Json(data_out)))
        /\ record_id' = poll_arg(data_out.record_id)
    /\ now' = 0
    /\ poll_last_err' = NoPollErr
    /\ gets' = <<>> /\ n_gets' = 0 /\ missed' = FALSE /\ poll_sleeps' = <<>>
    /\ poll_seen' = NothingSeen
    /\ pc' = "poll_while"
    /\ UNCHANGED <<total_pages, passVars, splitVars, twoVars, attempt, last_err,
                   sleeps, outcome>>

\* utils.py 149, 199: the for loop is exhausted
PostExhausted ==
    /\ pc = "post" /\ attempt >= MAX_RETRIES
    /\ outcome' = Raised(ExhaustedText(last_err))
    /\ pc' = "raised"
    /\ UNCHANGED <<total_pages, passVars, splitVars, twoVars, postVars, pollVars>>

\* faulty variant of before_deadline: the deadline itself still counts
before_deadline_inclusive(t) == t <= POLL_MAX_SECONDS

\* utils.py 89, 92: time.time() < deadline, t seconds after the call
before_deadline(t) == t < POLL_MAX_SECONDS

\* utils.py 92: the loop test holds, an iteration starts
PollIterate ==
    /\ pc = "poll_while"
    /\ before_deadline(now)
    /\ gets' = <<>>
    /\ pc' = "poll_query"
    /\ UNCHANGED <<total_pages, passVars, splitVars, twoVars, postVars, outcome,
                   record_id, now, poll_last_err, n_gets, missed,
                   poll_sleeps, poll_seen>>

\* utils.py 92, 137-143: the deadline has passed
PollTimeout ==
    /\ pc = "poll_while"
    /\ ~before_deadline(now)
    /\ outcome' = Raised(PollTimeoutText(record_id, poll_last_err))
    /\ pc' = "raised"
    /\ UNCHANGED <<total_pages, passVars, splitVars, twoVars, postVars, pollVars>>

\* utils.py 99-110, 121-131: the response of a GET is handed back.  (Status
\* 0 stands for a request that raised.)
GetReturns(status, payload) ==
    status = 200 /\ payload.json /\ poll_terminal(payload.data)

\* utils.py 99-114: last_err after a query-parameter request that did not
\* return: the response if its status is not 200, the exception if the
\* request or resp.json() raised, and left alone otherwise
query_last_err(err, status, payload) ==
    IF status = 0 THEN PollExc
    ELSE IF status # 200 THEN PollResp(status)
    ELSE IF ~payload.json THEN PollExc
    ELSE err

\* faulty variant of path_last_err: a response that is not HTTP 200 is
\* kept, as for the query-parameter request
path_last_err_kept(err, status, payload) ==
    IF status \notin {0, 200} THEN PollResp(status) ELSE err

\* utils.py 121-133: last_err after a path-parameter request that did not
\* return: the request has no else branch and its exceptions are passed
path_last_err(err, status, payload) == err

\* utils.py 94-114: the query-parameter request.  (When the poller returns
\* its clock and its last_err end with it: they are reset.)
PollQuery ==
    /\ pc = "poll_query"
    /\ \E d \in ReqDurations, status \in GetStatuses \cup {0} :
      \E body \in GetPayloads(status) :
        /\ n_gets' = n_gets + 1
        /\ gets' = Append(gets, GetEntry("query", status,
                            status # 0 /\ TerminalPredicate(body),
                            ~before_deadline(now + d)))
        /\ IF GetReturns(status, body)
           THEN /\ outcome' = Returned(body.data)
                /\ pc' = "returned"
                /\ now' = 0 /\ poll_last_err' = NoPollErr
                /\ poll_seen' = NothingSeen
                /\ UNCHANGED missed
           ELSE /\ now' = now + d
                /\ poll_last_err' = query_last_err(poll_last_err, status, body)
                /\ poll_seen' = SeeGet(poll_seen, "query", status, body)
                /\ missed' = (missed \/ (status = 200 /\ TerminalPredicate(body)))
                /\ pc' = "poll_path"
                /\ UNCHANGED outcome
    /\ UNCHANGED <<total_pages, passVars, splitVars, twoVars, postVars, record_id,
                   poll_sleeps>>

\* utils.py 116-135: the path-parameter request, then time.sleep
PollPath ==
    /\ pc = "poll_path"
    /\ \E d \in ReqDurations, status \in GetStatuses \cup {0} :
      \E body \in GetPayloads(status) :
        /\ n_gets' = n_gets + 1
        /\ gets' = Append(gets, GetEntry("path", status,
                            status # 0 /\ TerminalPredicate(body),
                            ~before_deadline(now + d)))
        /\ IF GetReturns(status, body)
           THEN /\ outcome' = Returned(body.data)
                /\ pc' = "returned"
                /\ now' = 0 /\ poll_last_err' = NoPollErr
                /\ poll_seen' = NothingSeen
                /\ UNCHANGED <<missed, poll_sleeps>>
           ELSE /\ missed' = (missed \/ (status = 200 /\ TerminalPredicate(body)))
                /\ poll_last_err' = path_last_err(poll_last_err, status, body)
                /\ poll_seen' = SeeGet(poll_seen, "path", status, body)
                /\ poll_sleeps' = Append(poll_sleeps, POLL_SLEEP_SEC)
                /\ now' = now + d + Last(poll_sleeps')
                /\ pc' = "poll_while"
                /\ UNCHANGED outcome
    /\ UNCHANGED <<total_pages, passVars, splitVars, twoVars, postVars, record_id>>

\* main.py 64-72: the caller's handler takes the exception: msg = str(e),
\* and code is parsed from msg
Catch ==
    /\ pc = "raised"
    /\ msg' = outcome.text
    /\ code' = ParseCode(msg')
    /\ pc' = "except"
    /\ UNCHANGED <<total_pages, mode, merge_markdown, chunk_size, start_page,
                   end_page, merged_md, artifacts, submissions, outcome>>
    /\ UNCHANGED <<splitVars, twoVars, postVars, pollVars>>

NextSubmit ==
    \/ PostTransportError \/ PostHttpError \/ PostNotJson \/ PostFinal
    \/ PostNoRecordId \/ PostReceipt \/ PostExhausted
    \/ PollIterate \/ PollTimeout \/ PollQuery \/ PollPath
    \/ Catch

SpecSubmit == InitSubmit /\ [][NextSubmit]_vars

\* utils.py 80, 89-90: one call of poll_until_ready on its own, with any
\* record id; deadline = time.time() + POLL_MAX_SECONDS, last_err = None
InitPoll ==
    /\ pc = "poll_while"
    /\ total_pages = 1
    /\ chunk_size = DEFAULT_CHUNK_SIZE
    /\ record_id \in RecordIds
    /\ now = 0 /\ poll_last_err = NoPollErr
    /\ gets = <<>> /\ n_gets = 0 /\ missed = FALSE /\ poll_sleeps = <<>>
    /\ poll_seen = NothingSeen
    /\ IdlePass /\ IdleSplit /\ IdlePost /\ IdleTwo

NextPoll == PollIterate \/ PollTimeout \/ PollQuery \/ PollPath

SpecPoll == InitPoll /\ [][NextPoll]_vars

\* The poller is one sequential, blocking call: every request ends within
\* its timeout (REQUEST_TIMEOUT) and every sleep ends, so the call keeps
\* running until it returns or raises.
FairSpecPoll == SpecPoll /\ WF_vars(NextPoll)

\* Every outcome of a call is one the pass draws from.
OutcomeInPostExtractOutcomes ==
    outcome # NoOutcome => outcome \in PostExtractOutcomes

(***************************************************************************)
(* Two calls of extract_mode_adaptive (main.py 22-112) for different modes *)
(* running at once, their steps interleaved.  Each call has its own        *)
(* locals; the document (total_pages) is read by both; the files are one   *)
(* file system.                                                            *)
(***************************************************************************)
soloVars ==
    <<pc, total_pages, passVars, splitVars, postVars, pollVars, outcome>>

\* faulty variant of OutDir: every mode is given the same directory
OutDir_shared(m) == "output"

\* main.py 16-19, 116-127: the out_dir main() passes with a mode
OutDir(m) ==
    CASE m = "markdown" -> "output/markdown"
      [] m = "ocr-with-bounding-boxes" -> "output/boxes"
      [] m = "tables" -> "output/tables"
      [] m = "hierarchy_output" -> "output/hierarchy"

\* main.py 85, 92-95, 110: os.path.join(out_dir, name)
PathJoin(dir, path) == [dir |-> dir, tag |-> path.tag, ext |-> path.ext]

\* main.py 22-31: the locals of a call, and written, the writes it made
PassLocals(m, mg) ==
    [pc |-> "while", mode |-> m, merge_markdown |-> mg, out_dir |-> OutDir(m),
     chunk_size |-> DEFAULT_CHUNK_SIZE, start_page |-> 1, end_page |-> 0,
     merged_md |-> <<>>, written |-> <<>>]

\* the outcomes of post_extract the two calls get: a result with content
\* "X" or "X\n", the HTTP 413 failure, a connection failure
TwoPassOutcomes ==
    {o \in PostExtractOutcomes :
        \/ /\ o.kind = "return"
           /\ o.body \in {[DoneBody EXCEPT !.content = c] : c \in {"X", "X\n"}}
        \/ /\ o.kind = "raise"
           /\ o.text \in {ExhaustedText(HTTPErrorText(413)),
                           ExhaustedText(<<"Connection aborted.">>)}}

InitTwo ==
    /\ pc = "two"
    /\ total_pages \in 0..MaxPagesTwo
    /\ chunk_size = DEFAULT_CHUNK_SIZE
    /\ \E a \in PassArgs, b \in PassArgs :
        /\ a[1] # b[1]
        /\ passes = <<PassLocals(a[1], a[2]), PassLocals(b[1], b[2])>>
    /\ files = {}
    /\ IdlePass /\ IdleSplit /\ IdlePost /\ IdlePoll

\* utils.py 11-22: open(out_path, "w") and write, by call p.  (The text of
\* a file is kept as a sequence of pieces; that of a .json or .error.txt
\* file is not kept: <<>>.)
SaveAs(p, fs, w) ==
    {f \in fs : f.path # w.path} \cup {[path |-> w.path, text |-> w.text, by |-> p]}

\* main.py 41-63
TwoDispatch(p) ==
    LET l == passes[p] IN
    /\ l.pc = "while"
    /\ l.start_page <= total_pages
    /\ passes' = [passes EXCEPT ![p] =
            [l EXCEPT !.end_page = range_end(l.start_page, l.chunk_size,
                                             total_pages),
                      !.pc = "post_extract"]]
    /\ UNCHANGED <<files, soloVars>>

\* main.py 63, 91-105
TwoSuccess(p) ==
    LET l == passes[p] IN
    /\ l.pc = "post_extract"
    /\ \E o \in TwoPassOutcomes :
        /\ o.kind = "return"
        /\ LET md == Get(o.body, "content", "")
               w == Write(PathJoin(l.out_dir,
                                   ChunkPath(l.mode, l.start_page, l.end_page)),
                          IF l.mode = "markdown" THEN <<md>> ELSE <<>>)
           IN  /\ files' = SaveAs(p, files, w)
               /\ passes' = [passes EXCEPT ![p] =
                    [l EXCEPT !.written = Append(@, w),
                              !.merged_md =
                                  IF l.mode = "markdown" /\ l.merge_markdown
                                  THEN Append(@, merged_entry(md)) ELSE @,
                              !.start_page = l.end_page + 1,
                              !.pc = "while"]]
    /\ UNCHANGED soloVars

\* main.py 64-81
TwoShrinkRetry(p) ==
    LET l == passes[p] IN
    /\ l.pc = "post_extract"
    /\ \E o \in TwoPassOutcomes :
        /\ o.kind = "raise"
        /\ ShrinkCondition(ParseCode(o.text), o.text, l.chunk_size)
    /\ passes' = [passes EXCEPT ![p] =
            [l EXCEPT !.chunk_size = new_size(l.chunk_size), !.pc = "while"]]
    /\ UNCHANGED <<files, soloVars>>

\* main.py 64-75, 82-89
TwoErrorMarker(p) ==
    LET l == passes[p] IN
    /\ l.pc = "post_extract"
    /\ \E o \in TwoPassOutcomes :
        /\ o.kind = "raise"
        /\ ~ShrinkCondition(ParseCode(o.text), o.text, l.chunk_size)
    /\ LET w == Write(PathJoin(l.out_dir, ErrorPath(l.start_page, l.end_page)),
                      <<>>)
       IN  /\ files' = SaveAs(p, files, w)
           /\ passes' = [passes EXCEPT ![p] =
                [l EXCEPT !.written = Append(@, w),
                          !.start_page = skip_to(l.start_page, l.end_page),
                          !.pc = "while"]]
    /\ UNCHANGED soloVars

\* main.py 41
TwoExitLoop(p) ==
    LET l == passes[p] IN
    /\ l.pc = "while"
    /\ l.start_page > total_pages
    /\ passes' = [passes EXCEPT ![p] = [l EXCEPT !.pc = "merge"]]
    /\ UNCHANGED <<files, soloVars>>

\* main.py 107-112
TwoMerge(p) ==
    LET l == passes[p]
        w == Write(PathJoin(l.out_dir, MergedPath), Join(l.merged_md))
        merges == l.merge_markdown /\ l.merged_md # <<>>
    IN
    /\ l.pc = "merge"
    /\ files' = IF merges THEN SaveAs(p, files, w) ELSE files
    /\ passes' = [passes EXCEPT ![p] =
            [l EXCEPT !.written = IF merges THEN Append(@, w) ELSE @,
                      !.pc = "done"]]
    /\ UNCHANGED soloVars

NextTwo ==
    \E p \in {1, 2} :
        \/ TwoDispatch(p) \/ TwoSuccess(p) \/ TwoShrinkRetry(p)
        \/ TwoErrorMarker(p) \/ TwoExitLoop(p) \/ TwoMerge(p)

SpecTwoPasses == InitTwo /\ [][NextTwo]_vars

(***************************************************************************)
(* Properties                                                              *)
(***************************************************************************)
\* the pages of 1..total_pages the range <<a, b>> holds
Covers(range, p) == range[1] <= p /\ p <= range[2]

\* C1: for every page count and every fixed chunk_size >= 1 the ranges
\* split_pdf_to_chunks yields, each (start, min(start + chunk_size - 1,
\* total_pages)) and the next starting at end + 1, lie in
\* 1 <= start <= end <= total_pages, are contiguous from page 1, do not
\* overlap, and cover every page yielded so far exactly once: all of
\* 1..total_pages when the generator is exhausted.
C1_RangesPartitionPages ==
    pc \in {"split", "split_done"} =>
      /\ \A i \in DOMAIN yielded :
            /\ 1 <= yielded[i][1]
            /\ yielded[i][1] <= yielded[i][2]
            /\ yielded[i][2] <= total_pages
            /\ yielded[i][2] =
                 Min(yielded[i][1] + chunk_size - 1, total_pages)
      /\ (yielded # <<>> => yielded[1][1] = 1)
      /\ \A i \in 1..(Len(yielded) - 1) :
            yielded[i + 1][1] = yielded[i][2] + 1
      /\ \A p \in 1..total_pages :
            Cardinality({i \in DOMAIN yielded : Covers(yielded[i], p)})
                = IF p < page THEN 1 ELSE 0
      /\ (pc = "split_done" => page = total_pages + 1)

\* C1 witness: an exhausted run of three ranges or more whose last range is
\* cut short by the end of the document
C1_Witness ==
    /\ pc = "split_done"
    /\ Len(yielded) >= 3
    /\ yielded[Len(yielded)][2] - yielded[Len(yielded)][1] + 1 < chunk_size
    /\ chunk_size > 1

\* the files of out_dir written for a range: success artifacts and error
\* markers, without the merged markdown
RangeArtifacts == SelectSeq(artifacts, LAMBDA a : a.path.tag # <<>>)

IsErrorMarker(a) == a.path.ext = "error.txt"
IsSuccessArtifact(a) == a.path.tag # <<>> /\ a.path.ext \in {"md", "json"}

\* C2: in every state of a pass, and so at its end whatever the outcomes of
\* the submissions were, the ranges with an artifact (success artifact or
\* error marker) are contiguous from page 1, do not overlap, and cover
\* exactly the pages before the cursor: all of 1..total_pages once the
\* loop has ended; a range has one artifact, never both kinds, and no file
\* name is written twice.
C2_ArtifactsPartitionPages ==
    pc \in {"while", "post_extract", "merge", "done"} =>
      LET ra == RangeArtifacts IN
      /\ \A i \in DOMAIN ra :
            /\ 1 <= ra[i].path.tag[1]
            /\ ra[i].path.tag[1] <= ra[i].path.tag[2]
            /\ ra[i].path.tag[2] <= total_pages
      /\ (ra # <<>> => ra[1].path.tag[1] = 1)
      /\ \A i \in 1..(Len(ra) - 1) :
            ra[i + 1].path.tag[1] = ra[i].path.tag[2] + 1
      /\ \A p \in 1..total_pages :
            Cardinality({i \in DOMAIN ra : Covers(ra[i].path.tag, p)})
                = IF p < start_page THEN 1 ELSE 0
      /\ (pc \in {"merge", "done"} => start_page = total_pages + 1)
      /\ \A i, j \in DOMAIN ra :
            ra[i].path.tag = ra[j].path.tag => i = j
      /\ \A i, j \in DOMAIN artifacts :
            artifacts[i].path = artifacts[j].path => i = j

\* C2 witness: a finished pass over 12 pages in which the chunk size shrank
\* and that left a success artifact and an error marker
C2_Witness ==
    /\ pc = "done"
    /\ total_pages = 12
    /\ chunk_size < DEFAULT_CHUNK_SIZE
    /\ \E i \in DOMAIN artifacts : IsErrorMarker(artifacts[i])
    /\ \E i \in DOMAIN artifacts : IsSuccessArtifact(artifacts[i])

\* C3: chunk_size is never below MIN_CHUNK_SIZE, and no step of a pass
\* increases it: it changes only in the shrink branch taken on a capacity
\* signal, to max(MIN_CHUNK_SIZE, chunk_size // 2); a successful
\* submission and an error-marker skip leave it as it is.
C3_ChunkSizeOnlyShrinks ==
    /\ [](pc \in {"while", "post_extract", "merge", "done"}
            => chunk_size >= MIN_CHUNK_SIZE)
    /\ [][/\ chunk_size' <= chunk_size
          /\ chunk_size' >= MIN_CHUNK_SIZE
          /\ chunk_size' # chunk_size =>
                /\ pc = "post_extract"
                /\ CapacitySignal(code', msg')
                /\ chunk_size' = Max(MIN_CHUNK_SIZE, chunk_size \div 2)
                /\ artifacts' = artifacts
          /\ Len(artifacts') > Len(artifacts) => chunk_size' = chunk_size
         ]_vars

\* C3 witness: a pass that shrank, then wrote a success artifact and an
\* error marker, with the chunk size at the floor
C3_Witness ==
    /\ chunk_size = MIN_CHUNK_SIZE
    /\ \E i \in DOMAIN submissions :
          submissions[i].size = DEFAULT_CHUNK_SIZE /\ submissions[i].raised
    /\ \E i \in DOMAIN artifacts : IsErrorMarker(artifacts[i])
    /\ \E i \in DOMAIN artifacts : IsSuccessArtifact(artifacts[i])

\* C4: a submission that raised a capacity signal while chunk_size was
\* above the floor is followed by a submission of the same start with a
\* strictly smaller chunk_size and no file written in between; until that
\* submission is made the pass is at the loop test with the cursor on the
\* same start, inside the document, and nothing written.
C4_CapacityFailureRetriesSameStart ==
    \A i \in DOMAIN submissions :
        (/\ submissions[i].raised
         /\ submissions[i].capacity
         /\ submissions[i].size > MIN_CHUNK_SIZE)
        => IF i < Len(submissions)
           THEN /\ submissions[i + 1].start = submissions[i].start
                /\ submissions[i + 1].size < submissions[i].size
                /\ submissions[i + 1].n_artifacts = submissions[i].n_artifacts
           ELSE /\ pc = "while"
                /\ start_page = submissions[i].start
                /\ start_page <= total_pages
                /\ chunk_size < submissions[i].size
                /\ Len(artifacts) = submissions[i].n_artifacts

\* C4 witness: a capacity failure above the floor, retried
C4_Witness ==
    /\ Len(submissions) >= 2
    /\ submissions[1].raised /\ submissions[1].capacity
    /\ submissions[1].size > MIN_CHUNK_SIZE
    /\ submissions[2].start = 1
    /\ submissions[2].end < submissions[1].end

\* C5: a submission of (start, end) that raised without a capacity signal,
\* or raised anything with chunk_size at the floor, has exactly one error
\* marker tagged (start, end) and no success artifact; chunk_size is left
\* as it was, the cursor goes to end + 1, and no later submission starts
\* at or before end.
C5_IrrecoverableFailureWritesMarker ==
    \A i \in DOMAIN submissions :
        LET sub == submissions[i] IN
        (sub.raised /\ ~(sub.capacity /\ sub.size > MIN_CHUNK_SIZE))
        => /\ Cardinality({k \in DOMAIN artifacts :
                    artifacts[k].path = ErrorPath(sub.start, sub.end)}) = 1
           /\ Len(artifacts) > sub.n_artifacts
           /\ artifacts[sub.n_artifacts + 1].path
                 = ErrorPath(sub.start, sub.end)
           /\ \A k \in DOMAIN artifacts :
                 IsSuccessArtifact(artifacts[k])
                    => artifacts[k].path.tag # <<sub.start, sub.end>>
           /\ \A j \in DOMAIN submissions : j > i =>
                 submissions[j].start > sub.end
           /\ IF i < Len(submissions)
              THEN /\ submissions[i + 1].start = sub.end + 1
                   /\ submissions[i + 1].size = sub.size
                   /\ submissions[i + 1].n_artifacts = sub.n_artifacts + 1
              ELSE /\ start_page = sub.end + 1
                   /\ chunk_size = sub.size
                   /\ Len(RangeArtifacts) = sub.n_artifacts + 1

\* C5 witness: a non-capacity failure above the floor and a capacity
\* failure at the floor, both skipped with a marker
C5_Witness ==
    /\ \E i \in DOMAIN submissions :
          /\ submissions[i].raised /\ ~submissions[i].capacity
          /\ submissions[i].size > MIN_CHUNK_SIZE
    /\ \E i \in DOMAIN submissions :
          /\ submissions[i].raised /\ submissions[i].capacity
          /\ submissions[i].size = MIN_CHUNK_SIZE
    /\ pc = "done"

\* C6: a pass ends, whatever the outcomes of its submissions: it makes at
\* most total_pages + 1 submissions (every submission but a shrunk one
\* moves the cursor on) and, the pass running on, reaches the end of the
\* loop with the cursor past the last page and returns.
C6_PassTerminates ==
    /\ [](Len(submissions) <= total_pages + 1)
    /\ <>(pc = "done" /\ start_page > total_pages)

\* C6 witness: a finished pass in which a range failed for good, one was
\* shrunk and one succeeded
C6_Witness ==
    /\ pc = "done"
    /\ start_page > total_pages
    /\ \E i \in DOMAIN submissions :
          submissions[i].raised /\ ~submissions[i].capacity
    /\ \E i \in DOMAIN submissions :
          /\ submissions[i].raised /\ submissions[i].capacity
          /\ submissions[i].size > MIN_CHUNK_SIZE
    /\ \E i \in DOMAIN submissions : ~submissions[i].raised

\* the (start, end) of the calls of post_extract, in order
SubmittedRanges ==
    [i \in DOMAIN submissions |-> <<submissions[i].start, submissions[i].end>>]

\* C7: a finished pass over 12 pages, with the default chunk size 10 and
\* the floor 5.  If no submission raised, the submitted ranges are (1,10),
\* (11,12).  If the first submission raised the HTTP 413 error (the only
\* failure whose message holds "413") and no later one raised, chunk_size
\* is 5, the submitted ranges are (1,10), (1,5), (6,10), (11,12), and the
\* files written for ranges are the success artifacts of (1,5), (6,10),
\* (11,12): none for (1,10).
C7_TwelvePageScenario ==
    (/\ pc = "done" /\ total_pages = 12
     /\ DEFAULT_CHUNK_SIZE = 10 /\ MIN_CHUNK_SIZE = 5)
    => /\ (\A i \in DOMAIN submissions : ~submissions[i].raised)
            => SubmittedRanges = << <<1, 10>>, <<11, 12>> >>
       /\ (/\ submissions # <<>>
           /\ submissions[1].raised /\ submissions[1].code = 413
           /\ \A i \in DOMAIN submissions : i > 1 => ~submissions[i].raised)
            => /\ \A o \in PostExtractOutcomes :
                    (o.kind = "raise" /\ ParseCode(o.text) = 413)
                        <=> o = Raised(ExhaustedText(HTTPErrorText(413)))
               /\ chunk_size = 5
               /\ SubmittedRanges =
                    << <<1, 10>>, <<1, 5>>, <<6, 10>>, <<11, 12>> >>
               /\ [i \in DOMAIN RangeArtifacts |-> RangeArtifacts[i].path.tag]
                    = << <<1, 5>>, <<6, 10>>, <<11, 12>> >>
               /\ \A i \in DOMAIN RangeArtifacts :
                    IsSuccessArtifact(RangeArtifacts[i])

\* C7 witness: the finished 12-page pass whose first submission raised the
\* HTTP 413 error and whose later submissions returned
C7_Witness ==
    /\ pc = "done" /\ total_pages = 12
    /\ Len(submissions) = 4
    /\ submissions[1].raised /\ submissions[1].code = 413
    /\ \A i \in DOMAIN submissions : i > 1 => ~submissions[i].raised

\* the call of post_extract is in the poller, or came back from it
InPoller == pc \in {"poll_while", "poll_query", "poll_path"}
PollerCalled == record_id # None

\* the last POST of the call was answered, below 400, with a JSON body
LastPostParsed ==
    /\ posts # <<>>
    /\ posts[Len(posts)].kind = "response"
    /\ posts[Len(posts)].status < 400
    /\ posts[Len(posts)].payload.json

\* C8: whenever the last POST response of a call of post_extract (status
\* below 400, JSON) satisfies the terminal predicate, the call has returned
\* exactly that body, and no GET was issued and the poller was not called
\* in that call.
C8_FinalResponseReturnedWithoutPolling ==
    (pc \in {"post", "returned", "raised"} \/ InPoller) =>
      ((LastPostParsed /\ TerminalPredicate(posts[Len(posts)].payload))
        => /\ pc = "returned"
           /\ outcome = Returned(posts[Len(posts)].payload.data)
           /\ n_gets = 0 /\ gets = <<>>
           /\ ~PollerCalled)

\* C8 witness: the scenario of the tables mode: the POST is answered with
\* a completed job and its tables, after an earlier attempt failed
C8_Witness ==
    /\ pc = "returned"
    /\ Len(posts) = 2
    /\ LastPostParsed
    /\ posts[2].payload.data.processing_status = "Completed"
    /\ posts[2].payload.data.tables = "[t]"
    /\ posts[2].payload.data.content = None
    /\ posts[2].payload.data.pages_processed = 0
    /\ n_gets = 0

\* C9: when the last POST response of a call is JSON and not terminal:
\* with a record_id, the poller is called with exactly that id, no further
\* POST is made, and the call ends as the poller does (the body of a GET
\* the poller handed back, or the poller's timeout error); without a
\* record_id the call raises the no-record_id error, the poller is not
\* called, no GET is issued and no further POST is made.  The poller is
\* called in no other case.
C9_ReceiptIsPolledOrRaises ==
    (pc \in {"post", "returned", "raised"} \/ InPoller) =>
      LET last == posts[Len(posts)] IN
      /\ (LastPostParsed /\ ~TerminalPredicate(last.payload)
            /\ last.payload.data.record_id \notin {None, ""})
          => /\ PollerCalled
             /\ record_id = last.payload.data.record_id
             /\ InPoller \/ pc \in {"returned", "raised"}
             /\ pc = "returned" =>
                  /\ n_gets > 0
                  /\ gets[Len(gets)].status = 200
                  /\ outcome.kind = "return"
             /\ pc = "raised" =>
                  outcome = Raised(PollTimeoutText(record_id, poll_last_err))
      /\ (LastPostParsed /\ ~TerminalPredicate(last.payload)
            /\ last.payload.data.record_id \in {None, ""})
          => /\ pc = "raised"
             /\ outcome = Raised(NoRecordIdText(last.payload.data))
             /\ ~PollerCalled
             /\ n_gets = 0
      /\ (PollerCalled \/ InPoller \/ n_gets > 0)
          => /\ LastPostParsed /\ ~TerminalPredicate(last.payload)
             /\ last.payload.data.record_id \notin {None, ""}
      /\ Len(posts) <= MAX_RETRIES
      /\ \A i \in 1..(Len(posts) - 1) :
            posts[i].kind = "transport" \/ posts[i].status >= 400

\* C9 witness: the receipt {"record_id": "job-5041"} was polled and the
\* poller handed back a body with status "Completed" and content "X"
C9_Witness ==
    /\ pc = "returned"
    /\ posts[Len(posts)].payload.data.record_id = "job-5041"
    /\ posts[Len(posts)].payload.data.processing_status = ""
    /\ record_id = "job-5041"
    /\ n_gets > 0
    /\ outcome.body.processing_status = "Completed"
    /\ outcome.body.content = "X"

\* C10: the GETs of an iteration of poll_until_ready are the
\* query-parameter request and then, only if that one did not bring a
\* terminal HTTP-200 response, the path-parameter request; no terminal
\* HTTP-200 response is ever passed over; and a body the poller returns is
\* that of the last GET, an HTTP-200 response satisfying the terminal
\* predicate: the first such response in request order.
C10_PollReturnsFirstTerminalResponse ==
    (pc \in {"post", "returned", "raised"} \/ InPoller) =>
      /\ Len(gets) <= 2
      /\ (Len(gets) >= 1 => gets[1].style = "query")
      /\ (Len(gets) = 2 =>
            /\ gets[2].style = "path"
            /\ ~(gets[1].status = 200 /\ gets[1].terminal))
      /\ (pc = "poll_path" => Len(gets) = 1)
      /\ ~missed
      /\ (pc = "returned" /\ PollerCalled) =>
            /\ gets # <<>>
            /\ gets[Len(gets)].status = 200
            /\ gets[Len(gets)].terminal
            /\ outcome.kind = "return"
            /\ TerminalPredicate(Json(outcome.body))

\* C10 witness: the poller returns the body of a path-parameter request of
\* its second iteration, after three GETs that were not terminal
C10_Witness ==
    /\ pc = "returned"
    /\ PollerCalled
    /\ n_gets = 4
    /\ Len(gets) = 2
    /\ gets[1].status = 200 /\ ~gets[1].terminal
    /\ gets[2].style = "path"

\* the GETs of the poller's current iteration that brought an HTTP-200
\* response satisfying the terminal predicate
TerminalGets == {i \in DOMAIN gets : gets[i].status = 200 /\ gets[i].terminal}

\* the iterations of the poller that ran to their sleep
IterationsCompleted ==
    (n_gets - (IF pc \in {"poll_path", "returned"} THEN Len(gets) ELSE 0)) \div 2

\* C11 as stated: a call of poll_until_ready that ended without an HTTP-200
\* terminal response observed before the deadline (POLL_MAX_SECONDS after
\* the call started) raised the poll-timeout error.
C11_TimeoutUnlessTerminalBeforeDeadline ==
    (PollerCalled /\ pc \in {"returned", "raised"}
        /\ ~\E i \in TerminalGets : ~gets[i].late)
    => /\ pc = "raised"
       /\ outcome = Raised(PollTimeoutText(record_id, poll_last_err))

\* C11, amended: every call of poll_until_ready ends.  It returns only the
\* body of an HTTP-200 terminal response, and raises the poll-timeout error
\* exactly when no such response came in an iteration started before the
\* deadline; the deadline is tested only where an iteration starts (one is
\* started only while now < deadline), so a terminal response that arrives
\* after the deadline in an iteration started before it is returned.
\* Every iteration that returns nothing ends with one sleep of
\* POLL_SLEEP_SEC, which the clock has passed.
C11_PollTerminates ==
    /\ [](pc = "poll_query" => now < POLL_MAX_SECONDS)
    /\ [][(pc = "poll_while" /\ pc' = "poll_query")
            => now < POLL_MAX_SECONDS /\ now' = now]_vars
    /\ []((PollerCalled /\ pc = "raised") =>
            /\ outcome = Raised(PollTimeoutText(record_id, poll_last_err))
            /\ now >= POLL_MAX_SECONDS
            /\ TerminalGets = {}
            /\ ~missed)
    /\ []((PollerCalled /\ pc = "returned") =>
            /\ Last(gets).status = 200 /\ Last(gets).terminal
            /\ outcome.kind = "return"
            /\ TerminalPredicate(Json(outcome.body)))
    /\ []((InPoller \/ (PollerCalled /\ pc \in {"returned", "raised"})) =>
            /\ Len(poll_sleeps) = IterationsCompleted
            /\ \A i \in DOMAIN poll_sleeps : poll_sleeps[i] = POLL_SLEEP_SEC
            /\ pc \in {"poll_while", "poll_query", "raised"}
                  => /\ n_gets = 2 * Len(poll_sleeps)
                     /\ now >= Len(poll_sleeps) * POLL_SLEEP_SEC)
    /\ [][(pc = "poll_path" /\ pc' = "poll_while")
            => /\ poll_sleeps' = Append(poll_sleeps, POLL_SLEEP_SEC)
               /\ now' >= now + POLL_SLEEP_SEC]_vars
    /\ (InPoller ~> (PollerCalled /\ pc \in {"returned", "raised"}))

\* C11 witness: the poller ran three iterations without a terminal
\* response, saw an HTTP-200 body that was not terminal in the last one,
\* and raised the poll-timeout error at the deadline
C11_Witness ==
    /\ pc = "raised"
    /\ PollerCalled
    /\ poll_sleeps = <<POLL_SLEEP_SEC, POLL_SLEEP_SEC, POLL_SLEEP_SEC>>
    /\ n_gets = 6
    /\ now >= POLL_MAX_SECONDS
    /\ gets[1].status = 200 /\ ~gets[1].terminal
    /\ outcome.text[1] = "Polling timed out for record_id="

SuccessArtifacts == SelectSeq(artifacts, IsSuccessArtifact)
MergedArtifacts == SelectSeq(artifacts, LAMBDA a : a.path = MergedPath)

\* the ranges whose submission returned, in submission order
SucceededRanges ==
    LET ok == SelectSeq(submissions, LAMBDA sub : ~sub.raised)
    IN  [i \in DOMAIN ok |-> <<ok[i].start, ok[i].end>>]

\* a text without its trailing whitespace
WithoutTrailingWhitespace(text) ==
    CASE text = "X\n" -> "X"
      [] OTHER -> text

\* the concatenation of the given texts, each followed by the marker
RECURSIVE EachFollowedByMarker(_)
EachFollowedByMarker(texts) ==
    IF texts = <<>> THEN <<>>
    ELSE <<Head(texts), "\n\n<!-- PAGE-CHUNK BREAK -->\n\n">>
            \o EachFollowedByMarker(Tail(texts))

\* what C13 says of a finished pass, but for the text each range
\* contributes, which is contribution(content of the range's file)
MergedIsConcatenation(contribution(_)) ==
    LET succ == SuccessArtifacts
        merged == MergedArtifacts
    IN  /\ pc # "done" => merged = <<>>
        /\ (pc = "done" /\ ~(mode = "markdown" /\ merge_markdown))
              => merged = <<>>
        /\ (pc = "done" /\ mode = "markdown" /\ merge_markdown) =>
              /\ [i \in DOMAIN succ |-> succ[i].path.tag] = SucceededRanges
              /\ \A i, j \in DOMAIN succ :
                    i < j => succ[i].path.tag[1] < succ[j].path.tag[1]
              /\ Len(merged) = IF succ = <<>> THEN 0 ELSE 1
              /\ succ # <<>> =>
                    /\ Last(artifacts).path = MergedPath
                    /\ merged[1].text = EachFollowedByMarker(
                          [i \in DOMAIN succ |-> contribution(succ[i].text)])

\* C13 as stated: the merged artifact of a markdown pass with merging is
\* the concatenation, in ascending start-page order, of the content of
\* exactly the ranges whose submission returned, each followed by the
\* marker; it is written only if a range succeeded.
C13_MergedIsConcatenationOfContents ==
    MergedIsConcatenation(LAMBDA text : text)

\* C13, amended: the same, for the content of each range without its
\* trailing whitespace.  Ranges that ended in an error marker and shrunk
\* attempts add nothing, no range adds twice, the merged artifact is the
\* last file written and is written only if a range succeeded; it is a
\* function of the per-range files, so the same contents give the same
\* merged artifact.
C13_MergedIsConcatenationOfStrippedContents ==
    MergedIsConcatenation(WithoutTrailingWhitespace)

\* C13 witness: a finished markdown pass with merging in which an attempt
\* was shrunk, a range ended in an error marker, and two ranges
\* succeeded, one with content that ends in a newline
C13_Witness ==
    /\ pc = "done" /\ mode = "markdown" /\ merge_markdown
    /\ Len(SuccessArtifacts) >= 2
    /\ \E i \in DOMAIN SuccessArtifacts : SuccessArtifacts[i].text = "X\n"
    /\ \E i \in DOMAIN artifacts : IsErrorMarker(artifacts[i])
    /\ chunk_size < DEFAULT_CHUNK_SIZE
    /\ MergedArtifacts # <<>>

\* the POSTs of the call that were answered with a status of 400 or more
HttpErrorPosts ==
    {i \in DOMAIN posts : posts[i].kind = "response" /\ posts[i].status >= 400}

\* C14 as stated: a POST response with status >= 400 is the last POST of
\* its call of post_extract (the chunk is not POSTed again, no backoff
\* sleep follows it), and the call raises for that response: the error of
\* raise_for_status() for its status.
C14_HttpErrorCostsOnePost ==
    (pc \in {"post", "returned", "raised"} \/ InPoller) =>
      /\ \A i \in HttpErrorPosts : i = Len(posts)
      /\ (pc = "raised" /\ HttpErrorPosts # {}) =>
            /\ Cardinality(HttpErrorPosts) = 1
            /\ outcome = Raised(HTTPErrorText(Last(posts).status))

\* C15 as stated: a call of post_extract makes at most MAX_RETRIES POSTs;
\* attempt k + 1 is made only after attempt k ended in a transport-level
\* failure and a sleep of RETRY_SLEEP_BASE * k seconds; a call whose
\* MAX_RETRIES attempts all ended in a transport failure does not return:
\* it raises the error that carries the last failure.
C15_RetriesOnlyAfterTransportFailure ==
    (pc \in {"post", "returned", "raised"} \/ InPoller) =>
      /\ Len(posts) <= MAX_RETRIES
      /\ \A k \in 1..(Len(posts) - 1) :
            /\ posts[k].kind = "transport"
            /\ Len(sleeps) >= k
            /\ sleeps[k] = RETRY_SLEEP_BASE * k
      /\ (/\ Len(posts) = MAX_RETRIES
          /\ \A k \in DOMAIN posts : posts[k].kind = "transport")
          => /\ pc \in {"post", "raised"}
             /\ last_err \in TransportTexts
             /\ pc = "raised" =>
                  outcome = Raised(<<"Extraction failed after",
                                     ToString(MAX_RETRIES), "attempts:">>
                                   \o last_err)

\* the HTTP status of the failure the call raised for: that of the last
\* POST response and, for a poll timeout, that of the response the poller
\* kept
FailureStatuses ==
    (IF posts # <<>> /\ Last(posts).kind = "response"
     THEN {Last(posts).status} ELSE {})
    \cup (IF PollerCalled /\ poll_last_err.kind = "response"
          THEN {poll_last_err.status} ELSE {})

\* the body of the last POST response, as text
LastResponseBody ==
    IF posts = <<>> \/ Last(posts).kind # "response" THEN <<>>
    ELSE IF Last(posts).payload.json THEN Dumps(Last(posts).payload.data)
    ELSE <<Last(posts).payload.text>>

\* one of the phrases occurs in the text, whatever the case
HasCapacityPhrase(text) ==
    \E phrase \in {"payload too large", "timeout", "timed out"} :
        In(phrase, LowerText(text))

\* C16 as stated: the controller takes a failed submission as a capacity
\* failure exactly when the failure's HTTP status is one of 408, 413, 429,
\* 500, 502, 503, 504, or one of the phrases "payload too large",
\* "timeout", "timed out" occurs, in any case, in the error message or in
\* the server's response body.
C16_CapacityExactlyByStatusOrPhrase ==
    pc = "except" =>
        (CapacitySignal(code, msg)
            <=> \/ FailureStatuses \cap {408, 413, 429, 500, 502, 503, 504} # {}
                \/ HasCapacityPhrase(msg)
                \/ HasCapacityPhrase(LastResponseBody))

\* the files call p wrote, as the file system holds them
FilesBy(p) == {f \in files : f.by = p}

\* C17: two passes for different modes, their steps interleaved in any
\* order and given any answers of the service.  Every step changes the
\* locals (cursor, chunk_size, accumulator) of one pass only and no file of
\* the other; the files of a pass are at all times exactly the writes it
\* made itself, with the text it wrote, all under its own out_dir, which
\* differs from the other's; and no path is written by both.
C17_ConcurrentPassesIndependent ==
    /\ [](pc = "two" =>
            /\ passes[1].mode # passes[2].mode
            /\ passes[1].out_dir # passes[2].out_dir
            /\ \A p \in {1, 2} :
                  /\ \A i \in DOMAIN passes[p].written :
                        /\ [path |-> passes[p].written[i].path,
                            text |-> passes[p].written[i].text,
                            by |-> p] \in files
                        /\ passes[p].written[i].path.dir = passes[p].out_dir
                  /\ Cardinality(FilesBy(p)) = Len(passes[p].written)
            /\ Cardinality(files)
                    = Len(passes[1].written) + Len(passes[2].written)
            /\ \A i \in DOMAIN passes[1].written :
                  \A j \in DOMAIN passes[2].written :
                    passes[1].written[i].path # passes[2].written[j].path)
    /\ [][pc = "two" =>
            \E p \in {1, 2} :
                /\ passes'[3 - p] = passes[3 - p]
                /\ FilesBy(3 - p)' = FilesBy(3 - p)]_vars

\* C17 witness: both passes are done over 7 pages; the markdown pass
\* shrank, wrote the ranges (1,5) and (6,7) and merged; both passes wrote
\* the error marker of the same range name, each in its own directory
C17_Witness ==
    /\ pc = "two"
    /\ total_pages = 7
    /\ passes[1].pc = "done" /\ passes[2].pc = "done"
    /\ passes[1].mode = "markdown"
    /\ passes[1].chunk_size = MIN_CHUNK_SIZE
    /\ Len(passes[1].written) = 3
    /\ passes[1].written[3].path.tag = <<>>
    /\ \E f \in FilesBy(1), g \in FilesBy(2) :
          /\ f.path.ext = "error.txt" /\ g.path.ext = "error.txt"
          /\ f.path.tag = g.path.tag
          /\ f.path.dir # g.path.dir

\* the message is that of the poller's timeout error (utils.py 140-143)
IsPollTimeout(text) ==
    text # <<>> /\ text[1] = "Polling timed out for record_id="

\* C18: when post_extract raised the poll-timeout error, the controller's
\* handler takes it as a capacity signal: with chunk_size above the floor
\* it halves chunk_size (not below the floor), keeps the cursor on the same
\* start, inside the document, and writes nothing; with chunk_size at the
\* floor it writes the error marker of the range and moves on.  So an
\* error marker for a poll timeout is written only at the floor.
C18_PollTimeoutIsCapacitySignal ==
    [][(pc = "post_extract" /\ pc' # pc /\ IsPollTimeout(msg')) =>
          /\ CapacitySignal(code', msg')
          /\ IF chunk_size > MIN_CHUNK_SIZE
             THEN /\ chunk_size' = Max(MIN_CHUNK_SIZE, chunk_size \div 2)
                  /\ chunk_size' < chunk_size
                  /\ start_page' = start_page
                  /\ start_page' <= total_pages
                  /\ artifacts' = artifacts
                  /\ merged_md' = merged_md
                  /\ pc' = "while"
             ELSE /\ chunk_size' = chunk_size
                  /\ artifacts' = Append(artifacts,
                        [path |-> [tag |-> <<start_page, end_page>>,
                                   ext |-> "error.txt"],
                         text |-> None])
                  /\ start_page' = end_page + 1
                  /\ pc' = "while"
      ]_vars

\* C18 witness: the submission of (1,10) ended in the poll-timeout error
\* that carries no status, for record "abc"; the chunk size was halved,
\* nothing was written, and the cursor is still on page 1
C18_Witness ==
    /\ pc = "while"
    /\ msg = <<"Polling timed out for record_id=", "abc">>
    /\ code = 0
    /\ Len(submissions) = 1
    /\ submissions[1].size = DEFAULT_CHUNK_SIZE
    /\ chunk_size = MIN_CHUNK_SIZE
    /\ start_page = 1
    /\ artifacts = <<>>

\* the submissions after which the chunk size was smaller
ShrinkEvents ==
    {i \in DOMAIN submissions :
        (IF i < Len(submissions) THEN submissions[i + 1].size ELSE chunk_size)
            < submissions[i].size}

\* how often a chunk size can be halved, not below the floor, until it is
\* at the floor
RECURSIVE Halvings(_)
Halvings(size) ==
    IF size <= MIN_CHUNK_SIZE THEN 0
    ELSE 1 + Halvings(IF size \div 2 >= MIN_CHUNK_SIZE
                      THEN size \div 2 ELSE MIN_CHUNK_SIZE)

\* C19: a pass shrinks at most as often as the default chunk size can be
\* halved down to the floor: once, with the configured 10 and 5.  Every
\* submission but the shrunk ones and the one in flight left an artifact,
\* so a finished pass made at most (ranges with an artifact) + 1
\* submissions; chunk_size, and the size of every submission, is 10 or 5.
C19_AtMostOneShrink ==
    pc \in {"while", "post_extract", "merge", "done"} =>
      /\ Cardinality(ShrinkEvents) <= Halvings(DEFAULT_CHUNK_SIZE)
      /\ (DEFAULT_CHUNK_SIZE = 10 /\ MIN_CHUNK_SIZE = 5) =>
            /\ Halvings(DEFAULT_CHUNK_SIZE) = 1
            /\ Cardinality(ShrinkEvents) <= 1
            /\ chunk_size \in {10, 5}
            /\ \A i \in DOMAIN submissions : submissions[i].size \in {10, 5}
            /\ Len(submissions) <= Len(RangeArtifacts) + 1
                    + (IF pc = "post_extract" THEN 1 ELSE 0)
            /\ pc \in {"merge", "done"}
                  => Len(submissions) <= Len(RangeArtifacts) + 1
      /\ Len(submissions) = Len(RangeArtifacts) + Cardinality(ShrinkEvents)
                                + (IF pc = "post_extract" THEN 1 ELSE 0)

\* C19 witness: a finished pass over 12 pages that shrank once, at its
\* first range, met two more capacity failures at the floor, and made one
\* submission more than it left artifacts
C19_Witness ==
    /\ pc = "done"
    /\ total_pages = 12
    /\ ShrinkEvents = {1}
    /\ Len(RangeArtifacts) = 3
    /\ Len(submissions) = 4
    /\ chunk_size = 5
    /\ submissions[2].raised /\ submissions[2].capacity
    /\ submissions[4].raised /\ submissions[4].capacity

\* utils.py 25-46 as a function of the page count and the chunk size: the
\* ranges the generator yields from the cursor p on, in order
RECURSIVE ChunkRangesFrom(_, _, _)
ChunkRangesFrom(p, size, n) ==
    IF p <= n
    THEN << <<p, split_end(p, size, n)>> >>
            \o ChunkRangesFrom(split_end(p, size, n) + 1, size, n)
    ELSE <<>>

split_pdf_to_chunks(n, size) == ChunkRangesFrom(1, size, n)

\* The generator, run step by step, yields what the function gives: the
\* ranges yielded so far, followed by those from the cursor on, are the
\* ranges of the whole document.
SplitYieldsChunkRanges ==
    pc \in {"split", "split_done"}
        => /\ yielded \o ChunkRangesFrom(page, chunk_size, total_pages)
                = split_pdf_to_chunks(total_pages, chunk_size)
           /\ pc = "split_done"
                => yielded = split_pdf_to_chunks(total_pages, chunk_size)

NoSubmissionFailed == \A i \in DOMAIN submissions : ~submissions[i].raised

\* C20: while no submission of a pass has failed, the ranges it has
\* submitted are the first ranges split_pdf_to_chunks yields for the same
\* page count with chunk_size = DEFAULT_CHUNK_SIZE, and once the loop is
\* over they are all of them, in the same order.  For a document with zero
\* pages the generator yields no range, the pass submits none and writes no
\* file, the merged markdown included.
C20_NoFailurePassFollowsGenerator ==
    LET ranges == split_pdf_to_chunks(total_pages, DEFAULT_CHUNK_SIZE) IN
    /\ NoSubmissionFailed
        => /\ Len(submissions) <= Len(ranges)
           /\ SubmittedRanges = SubSeq(ranges, 1, Len(submissions))
           /\ pc \in {"merge", "done"} => SubmittedRanges = ranges
           /\ chunk_size = DEFAULT_CHUNK_SIZE
    /\ total_pages = 0
        => /\ ranges = <<>>
           /\ submissions = <<>>
           /\ artifacts = <<>>
           /\ merged_md = <<>>

\* C20 witness: a finished merging markdown pass over 12 pages in which
\* every submission returned: two ranges, the second one cut at the last
\* page, two range files and the merged file
C20_Witness ==
    /\ pc = "done"
    /\ total_pages = 12
    /\ mode = "markdown" /\ merge_markdown
    /\ NoSubmissionFailed
    /\ SubmittedRanges = << <<1, 10>>, <<11, 12>> >>
    /\ Len(RangeArtifacts) = 2
    /\ Len(artifacts) = 3

====
